---------------------------- MODULE Spec2Model ----------------------------
(***************************************************************************)
(* Model of extract_pdf_content.py: extract_pdf_text (the adapter around   *)
(* pdfplumber) and analyze_pdf_files (enumeration, console summary and the *)
(* JSON report).  Python strings are TLA+ strings; a Python list is a      *)
(* sequence; a Python dict is the sequence of its items in insertion       *)
(* order.  A value that is either a list or a str carries a tag, which is  *)
(* what isinstance(content, list) reads.                                   *)
(***************************************************************************)
EXTENDS Integers, Sequences, FiniteSets, TLC

(***************************************************************************)
(* Bounds of the model.                                                    *)
(***************************************************************************)
MaxItems == 3     \* size of the input directory: the pages of its documents and
                  \* its entries that are no PDF file, together

(***************************************************************************)
(* Program constants.                                                      *)
(***************************************************************************)
PreviewLen == 200
EnumerateStart == 1

base_path == "/Users/aldoruizluna/labspace/ec0249/reference/raw"
base_path_parent == "/Users/aldoruizluna/labspace/ec0249/reference"
output_file == base_path_parent \o "/" \o "pdf_content_analysis.json"

(***************************************************************************)
(* State.                                                                  *)
(***************************************************************************)
VARIABLES
    directory,         \* the input directory: entries [name, doc], listing order
    jsonFile,          \* documents in output_file on disk; <<>> before the first run
    run,               \* the invocation of the script now running
    pc,                \* "start", "loop", "pages", "record", "done"
    pdf_files,         \* line 31
    idx,               \* files the for loop of line 35 has taken
    analysis_results,  \* line 33
    handles,           \* documents open in pdfplumber
    text_content,      \* line 16
    page_num,          \* pages the for loop of line 17 has taken
    content,           \* line 37
    console,           \* lines printed by this invocation
    serialized,        \* documents json.dump wrote in this invocation
    returned,          \* line 56
    history            \* jsonFile at the end of every finished invocation

vars == <<directory, jsonFile, run, pc, pdf_files, idx, analysis_results, handles,
          text_content, page_num, content, console, serialized, returned, history>>

(***************************************************************************)
(* Strings.                                                                *)
(***************************************************************************)
RECURSIVE Rep(_, _)
Rep(c, n) ==
    IF n = 0 THEN ""
    ELSE IF n % 2 = 0 THEN LET half == Rep(c, n \div 2) IN half \o half
    ELSE c \o Rep(c, n - 1)

\* the characters str.strip() removes (str.isspace) that a string of the model can
\* hold: U+0009 to U+000D, U+001C to U+001F, U+0020, U+0085, U+00A0, U+1680.  The
\* other Unicode spaces (U+2000 to U+200A, U+2028, U+2029, U+202F, U+205F, U+3000)
\* cannot be written in a string of this module and occur in no text of the model.
Whitespace ==
    {"\t", "\n", "", "\f", "\r", "", "", "", "", " ", "", " ", " "}

\* s[i:] and s[:n] of Python, 0-based i
SliceFrom(s, i) == IF i >= Len(s) THEN "" ELSE SubSeq(s, i + 1, Len(s))
SliceTo(s, n) == IF n >= Len(s) THEN s ELSE IF n = 0 THEN "" ELSE SubSeq(s, 1, n)

RECURSIVE lstrip(_)
lstrip(s) ==
    IF s # "" /\ SubSeq(s, 1, 1) \in Whitespace
    THEN lstrip(SliceFrom(s, 1))
    ELSE s

RECURSIVE rstrip(_)
rstrip(s) ==
    IF s # "" /\ SubSeq(s, Len(s), Len(s)) \in Whitespace
    THEN rstrip(SliceTo(s, Len(s) - 1))
    ELSE s

\* str.strip()
strip(s) == rstrip(lstrip(s))

EndsWith(s, suffix) ==
    /\ Len(s) >= Len(suffix)
    /\ SliceFrom(s, Len(s) - Len(suffix)) = suffix

StartsWith(s, prefix) ==
    /\ Len(s) >= Len(prefix)
    /\ SliceTo(s, Len(prefix)) = prefix

\* str(n) for a non-negative integer
RECURSIVE Str(_)
Str(n) ==
    IF n < 10 THEN SubSeq("0123456789", n + 1, n + 1)
    ELSE Str(n \div 10) \o Str(n % 10)

(***************************************************************************)
(* The external library and the input directory.  A page object is named   *)
(* by what page.extract_text() does on it; a document either fails to open *)
(* or is the list of its pages.                                            *)
(***************************************************************************)
PageKinds == {"absent", "empty", "blank", "text200", "text201", "fault"}

\* texts with whitespace around them: U+000B, U+001F and newline; U+00A0, tab,
\* space and U+0085; the blank page is space, newline, U+001C, U+1680
Text200 == "" \o Rep("x", PreviewLen) \o "\n"
Text201 == " \t" \o Rep("y", PreviewLen + 1) \o " "
TextBlank == " \n "

OpenFaultText == "No /Root object! - Is this really a PDF?"
PageFaultText == "Unsupported encoding"

\* page.extract_text(): None, a string, or a raised Exception
ExtractText(page) ==
    CASE page = "absent"  -> [kind |-> "none"]
      [] page = "empty"   -> [kind |-> "str", val |-> ""]
      [] page = "blank"   -> [kind |-> "str", val |-> TextBlank]
      [] page = "text200" -> [kind |-> "str", val |-> Text200]
      [] page = "text201" -> [kind |-> "str", val |-> Text201]
      [] page = "fault"   -> [kind |-> "raise", val |-> PageFaultText]

Unreadable == [openFault |-> TRUE, pages |-> <<>>]

DocsWithPages(k) == { [openFault |-> FALSE, pages |-> p] : p \in [1..k -> PageKinds] }

\* names the entries of the input directory can have
EntryNames == {"a.pdf", "b.pdf", "notes.txt"}

\* what an entry of that name can be, by the items it takes from the budget
EntryDocs(name, items) ==
    IF EndsWith(name, ".pdf")
    THEN DocsWithPages(items) \cup (IF items = 0 THEN {Unreadable} ELSE {})
    ELSE IF items = 1 THEN {Unreadable} ELSE {}

\* the orders in which the filesystem may list entries of distinct names
RECURSIVE Listings(_)
Listings(names) ==
    {<<>>} \cup UNION { { <<name>> \o rest : rest \in Listings(names \ {name}) } :
                        name \in names }

\* what the entry at position i of the listing can be; nothing past its end
SlotDocs(order, i, items) ==
    IF i <= Len(order) THEN EntryDocs(order[i], items)
    ELSE IF items = 0 THEN {Unreadable} ELSE {}

\* the directory of that listing and those documents
DirectoryOf(order, docs) == [i \in DOMAIN order |-> [name |-> order[i], doc |-> docs[i]]]

(***************************************************************************)
(* Values of the program.                                                  *)
(***************************************************************************)
List(l) == [tag |-> "list", val |-> l]
PyStr(s) == [tag |-> "str", val |-> s]

\* pdf_path is base_path / name
PathOf(name) == base_path \o "/" \o name

\* a test for None only, in place of Truthy
TruthyNotNone(r) == r.kind = "str"

\* line 19: if page_text
Truthy(r) == r.kind = "str" /\ r.val # ""

\* the position in the list as the page number, in place of AppendRecord
AppendRecordListPosition(tc, num, text) ==
    Append(tc, [page |-> Len(tc) + 1, content |-> strip(text)])

\* the text as extracted, in place of AppendRecord
AppendRecordNoStrip(tc, num, text) ==
    Append(tc, [page |-> num, content |-> text])

\* lines 20-23
AppendRecord(tc, num, text) ==
    Append(tc, [page |-> num, content |-> strip(text)])

\* the pages gathered so far returned on a fault, in place of Failure
FailureKeepsPartial(pdf_path, e) == List(text_content)

\* line 26
Failure(pdf_path, e) ==
    PyStr("Error extracting from " \o pdf_path \o ": " \o e)

\* a handle opened without the with block, in place of WithExit
WithExitLeak(h, name) == h

\* line 15: leaving the with block, by return or by exception
WithExit(h, name) == h \ {name}

\* line 31: base_path.glob("*.pdf")
Glob(dir) ==
    LET names == [i \in DOMAIN dir |-> dir[i].name]
    IN  SelectSeq(names, LAMBDA n : EndsWith(n, ".pdf"))

DictKeys(d) == [i \in DOMAIN d |-> d[i].key]

DictHas(d, k) == \E i \in DOMAIN d : d[i].key = k

DictGet(d, k) == d[CHOOSE i \in DOMAIN d : d[i].key = k].value

\* the mapping replaced by its newest entry, in place of DictSet
DictSetClobber(d, k, v) == <<[key |-> k, value |-> v]>>

\* line 38: analysis_results[pdf_file.name] = content
DictSet(d, k, v) ==
    IF DictHas(d, k)
    THEN [i \in DOMAIN d |-> IF d[i].key = k THEN [key |-> k, value |-> v] ELSE d[i]]
    ELSE Append(d, [key |-> k, value |-> v])

\* the marker from 200 characters on, in place of Preview
PreviewOffByOne(c) ==
    IF Len(c) >= PreviewLen THEN SliceTo(c, PreviewLen) \o "..." ELSE c

\* line 44
Preview(c) ==
    IF Len(c) > PreviewLen THEN SliceTo(c, PreviewLen) \o "..." ELSE c

\* lines 41-48
Summary(c) ==
    IF c.tag = "list"
    THEN <<"  - Pages: " \o Str(Len(c.val))>>
         \o (IF c.val # <<>>
             THEN <<"  - First page preview: " \o Preview(c.val[1].content)>>
             ELSE <<>>)
         \o <<"">>
    ELSE <<"  - Error: " \o c.val, "">>

\* line 53: json.dump of the mapping, members in insertion order
JsonValue(v) ==
    IF v.tag = "list"
    THEN [type |-> "array",
          items |-> [i \in DOMAIN v.val |->
                        [page |-> v.val[i].page, content |-> v.val[i].content]]]
    ELSE [type |-> "string", text |-> v.val]

JsonDump(d) == <<[i \in DOMAIN d |-> [key |-> d[i].key, value |-> JsonValue(d[i].value)]]>>

\* open(output_file, 'a'), in place of WriteFile
AppendFile(old, data) == old \o data

\* line 52: open(output_file, 'w') truncates
WriteFile(old, data) == data

NoValue == [tag |-> "unset", val |-> <<>>]

CurName == pdf_files[idx]

DocOf(name) == directory[CHOOSE i \in DOMAIN directory : directory[i].name = name].doc

\* a loop that a Failure ends, in place of LoopContinues
LoopStopsAfterFault == idx < Len(pdf_files) /\ content.tag # "str"

\* line 35: the loop has another file
LoopContinues == idx < Len(pdf_files)

Init ==
    /\ \E order \in Listings(EntryNames) :
       \E i1 \in 0..MaxItems :
       \E i2 \in 0..(MaxItems - i1) :
       \E i3 \in 0..(MaxItems - i1 - i2) :
       \E d1 \in SlotDocs(order, 1, i1) :
       \E d2 \in SlotDocs(order, 2, i2) :
       \E d3 \in SlotDocs(order, 3, i3) :
           directory = DirectoryOf(order, <<d1, d2, d3>>)
    /\ jsonFile = <<>>
    /\ run = "first"
    /\ pc = "start"
    /\ pdf_files = <<>>
    /\ idx = 0
    /\ analysis_results = <<>>
    /\ handles = {}
    /\ text_content = <<>>
    /\ page_num = 0
    /\ content = NoValue
    /\ console = <<>>
    /\ serialized = <<>>
    /\ returned = NoValue
    /\ history = <<>>

\* lines 30-33
Enumerate ==
    /\ pc = "start"
    /\ pdf_files' = Glob(directory)
    /\ analysis_results' = <<>>
    /\ idx' = 0
    /\ pc' = "loop"
    /\ UNCHANGED <<directory, jsonFile, run, handles, text_content, page_num, content,
                   console, serialized, returned, history>>

\* lines 35-37 and 15-16: the document opens
OpenDocument ==
    /\ pc = "loop"
    /\ LoopContinues
    /\ LET name == pdf_files[idx + 1]
       IN  /\ ~DocOf(name).openFault
           /\ idx' = idx + 1
           /\ console' = Append(console, "Processing: " \o name)
           /\ handles' = handles \cup {name}
           /\ text_content' = <<>>
           /\ page_num' = 0
           /\ pc' = "pages"
    /\ UNCHANGED <<directory, jsonFile, run, pdf_files, analysis_results, content,
                   serialized, returned, history>>

\* lines 35-37, 15 and 25-26: pdfplumber.open raises
OpenFault ==
    /\ pc = "loop"
    /\ LoopContinues
    /\ LET name == pdf_files[idx + 1]
       IN  /\ DocOf(name).openFault
           /\ idx' = idx + 1
           /\ console' = Append(console, "Processing: " \o name)
           /\ content' = Failure(PathOf(name), OpenFaultText)
           /\ pc' = "record"
    /\ UNCHANGED <<directory, jsonFile, run, pdf_files, analysis_results, handles,
                   text_content, page_num, serialized, returned, history>>

\* lines 17-23: one page, extract_text returns
ExtractPage ==
    /\ pc = "pages"
    /\ page_num < Len(DocOf(CurName).pages)
    /\ LET page_text == ExtractText(DocOf(CurName).pages[page_num + 1])
           num == page_num + EnumerateStart
       IN  /\ page_text.kind # "raise"
           /\ text_content' = IF Truthy(page_text)
                              THEN AppendRecord(text_content, num, page_text.val)
                              ELSE text_content
    /\ page_num' = page_num + 1
    /\ UNCHANGED <<directory, jsonFile, run, pc, pdf_files, idx, analysis_results,
                   handles, content, console, serialized, returned, history>>

\* lines 18, 25-26: extract_text raises; the with block is left
PageFault ==
    /\ pc = "pages"
    /\ page_num < Len(DocOf(CurName).pages)
    /\ LET page_text == ExtractText(DocOf(CurName).pages[page_num + 1])
       IN  /\ page_text.kind = "raise"
           /\ content' = Failure(PathOf(CurName), page_text.val)
    /\ handles' = WithExit(handles, CurName)
    /\ pc' = "record"
    /\ UNCHANGED <<directory, jsonFile, run, pdf_files, idx, analysis_results,
                   text_content, page_num, console, serialized, returned, history>>

\* line 24: return text_content; the with block is left
ReturnList ==
    /\ pc = "pages"
    /\ page_num = Len(DocOf(CurName).pages)
    /\ content' = List(text_content)
    /\ handles' = WithExit(handles, CurName)
    /\ pc' = "record"
    /\ UNCHANGED <<directory, jsonFile, run, pdf_files, idx, analysis_results,
                   text_content, page_num, console, serialized, returned, history>>

\* lines 38-48
Record ==
    /\ pc = "record"
    /\ analysis_results' = DictSet(analysis_results, CurName, content)
    /\ console' = console \o Summary(content)
    /\ pc' = "loop"
    /\ UNCHANGED <<directory, jsonFile, run, pdf_files, idx, handles, text_content,
                   page_num, content, serialized, returned, history>>

\* lines 50-56
Dump ==
    /\ pc = "loop"
    /\ ~LoopContinues
    /\ jsonFile' = WriteFile(jsonFile, JsonDump(analysis_results))
    /\ serialized' = serialized \o JsonDump(analysis_results)
    /\ console' = Append(console, "Detailed analysis saved to: " \o output_file)
    /\ returned' = analysis_results
    /\ history' = Append(history, jsonFile')
    /\ pc' = "done"
    /\ UNCHANGED <<directory, run, pdf_files, idx, analysis_results, handles,
                   text_content, page_num, content>>

\* line 59 again: the script is invoked once more; only the disk is kept
RunAgain ==
    /\ pc = "done"
    /\ run = "first"
    /\ run' = "second"
    /\ pc' = "start"
    /\ pdf_files' = <<>>
    /\ idx' = 0
    /\ analysis_results' = <<>>
    /\ handles' = {}
    /\ text_content' = <<>>
    /\ page_num' = 0
    /\ content' = NoValue
    /\ console' = <<>>
    /\ serialized' = <<>>
    /\ returned' = NoValue
    /\ UNCHANGED <<directory, jsonFile, history>>

Next ==
    \/ Enumerate
    \/ OpenDocument
    \/ OpenFault
    \/ ExtractPage
    \/ PageFault
    \/ ReturnList
    \/ Record
    \/ Dump

\* one invocation of the script
Spec == Init /\ [][Next]_vars

NextTwice ==
    \/ Next
    \/ RunAgain

\* two invocations of the script on the unchanged directory
SpecTwice == Init /\ [][NextTwice]_vars

TypeOK ==
    /\ run \in {"first", "second"}
    /\ pc \in {"start", "loop", "pages", "record", "done"}
    /\ idx \in 0..Len(pdf_files)
    /\ content.tag \in {"unset", "list", "str"}

(***************************************************************************)
(* What the properties read.                                               *)
(***************************************************************************)
\* the file results held by the program: the recorded ones and the one returned last
Results ==
    { [name |-> analysis_results[i].key, value |-> analysis_results[i].value] :
        i \in DOMAIN analysis_results }
    \cup (IF pc = "record" THEN {[name |-> CurName, value |-> content]} ELSE {})

\* the document faults when it is opened or when one of its pages is extracted
Faults(doc) ==
    \/ doc.openFault
    \/ \E i \in DOMAIN doc.pages : ExtractText(doc.pages[i]).kind = "raise"

FaultDescription(doc) == IF doc.openFault THEN OpenFaultText ELSE PageFaultText

\* page i of the document has text: present and not the empty string
HasText(doc, i) ==
    /\ ExtractText(doc.pages[i]).kind = "str"
    /\ ExtractText(doc.pages[i]).val # ""

\* c is t without its leading and trailing whitespace
IsTrimOf(c, t) ==
    LET Solid(i) == SubSeq(t, i, i) \notin Whitespace
    IN  IF \A i \in 1..Len(t) : ~Solid(i) THEN c = ""
        ELSE LET lo == CHOOSE i \in 1..Len(t) : Solid(i) /\ \A j \in 1..(i - 1) : ~Solid(j)
                 hi == CHOOSE i \in 1..Len(t) : Solid(i) /\ \A j \in (i + 1)..Len(t) : ~Solid(j)
             IN  c = SubSeq(t, lo, hi)

\* the lines printed for the file taken last
LastBlock ==
    LET starts == { i \in DOMAIN console : StartsWith(console[i], "Processing: ") }
        from == CHOOSE i \in starts : \A j \in starts : i >= j
    IN  SubSeq(console, from, Len(console))

PreviewPrefix == "  - First page preview: "

\* the file taken last has just been recorded and summarised
JustRecorded == pc = "loop" /\ idx >= 1

(***************************************************************************)
(* C1: a file whose document faults, at opening or at any page, has as its *)
(* result the string "Error extracting from <path>: <fault description>",  *)
(* never a list, whatever number of pages was gathered before the fault.   *)
(***************************************************************************)
C1_FaultGivesErrorString ==
    \A r \in Results :
        Faults(DocOf(r.name)) =>
            /\ r.value.tag = "str"
            /\ r.value.val = "Error extracting from " \o base_path \o "/" \o r.name
                               \o ": " \o FaultDescription(DocOf(r.name))

\* a fault at the third page, two records gathered before it, recorded as a string
C1_Witness ==
    /\ JustRecorded
    /\ Len(text_content) = 2
    /\ Len(DocOf(CurName).pages) = 3
    /\ ExtractText(DocOf(CurName).pages[3]).kind = "raise"
    /\ DictGet(analysis_results, CurName).tag = "str"

(***************************************************************************)
(* C2: when the report is serialized its keys are the names of the         *)
(* enumerated files, each exactly once, whether a file ended as Success or *)
(* as Failure, and no other key is present.                                *)
(***************************************************************************)
C2_KeysAreEnumeratedFiles ==
    \A d \in DOMAIN serialized :
        LET doc == serialized[d]
        IN  /\ { doc[i].key : i \in DOMAIN doc } = { pdf_files[j] : j \in DOMAIN pdf_files }
            /\ \A i, j \in DOMAIN doc : doc[i].key = doc[j].key => i = j
            /\ Len(doc) = Len(pdf_files)

\* a Failure for the first file, a Success with records for the second, both serialized
C2_Witness ==
    /\ pc = "done"
    /\ Len(serialized) = 1
    /\ Len(serialized[1]) = 2
    /\ serialized[1][1].value.type = "string"
    /\ serialized[1][2].value.type = "array"
    /\ serialized[1][2].value.items # <<>>

(***************************************************************************)
(* C3: in every list result the page numbers are >= 1 and strictly         *)
(* increasing, and each entry's page number is the 1-based position of its *)
(* page in the document.                                                   *)
(***************************************************************************)
C3_PageNumbers ==
    \A r \in Results :
        r.value.tag = "list" =>
            LET l == r.value.val
                pages == DocOf(r.name).pages
            IN  /\ \A i \in DOMAIN l : l[i].page >= 1
                /\ \A i, j \in DOMAIN l : i < j => l[i].page < l[j].page
                /\ \A i \in DOMAIN l :
                      /\ l[i].page \in DOMAIN pages
                      /\ ExtractText(pages[l[i].page]).kind = "str"
                      /\ IsTrimOf(l[i].content, ExtractText(pages[l[i].page]).val)

\* a recorded list with a gap: pages 1 and 3, of different texts
C3_Witness ==
    \E r \in Results :
        /\ r.value.tag = "list"
        /\ Len(r.value.val) = 2
        /\ r.value.val[1].page = 1
        /\ r.value.val[2].page = 3
        /\ r.value.val[1].content # r.value.val[2].content

(***************************************************************************)
(* C4: every record of every list result has a non-empty content string,   *)
(* also for a page text made only of whitespace.                           *)
(***************************************************************************)
C4_ContentNonEmpty ==
    \A r \in Results :
        r.value.tag = "list" =>
            \A i \in DOMAIN r.value.val : r.value.val[i].content # ""

(***************************************************************************)
(* C5: the printed preview of the first record of a list result is its     *)
(* first 200 characters followed by "..." when the content is longer than  *)
(* 200 characters, and the content itself when its length is 200 or less.  *)
(***************************************************************************)
C5_Preview ==
    JustRecorded =>
        LET v == DictGet(analysis_results, CurName)
        IN  (v.tag = "list" /\ v.val # <<>>) =>
                LET c == v.val[1].content
                    line == console[Len(console) - 1]
                    shown == SliceFrom(line, Len(PreviewPrefix))
                IN  /\ StartsWith(line, PreviewPrefix)
                    /\ Len(c) > 200 => shown = SubSeq(c, 1, 200) \o "..."
                    /\ Len(c) <= 200 => shown = c

\* both sides of the boundary: a first record of exactly 200 characters in one
\* file and of 201 characters in the next, both summarised
C5_Witness ==
    /\ JustRecorded
    /\ Len(analysis_results) = 2
    /\ analysis_results[1].value.tag = "list"
    /\ analysis_results[2].value.tag = "list"
    /\ analysis_results[1].value.val # <<>>
    /\ analysis_results[2].value.val # <<>>
    /\ Len(analysis_results[1].value.val[1].content) = 200
    /\ Len(analysis_results[2].value.val[1].content) = 201

(***************************************************************************)
(* C6: a document handle is open only while its file's pages are being     *)
(* extracted: it is closed when extract_pdf_text returns or faults, before *)
(* the next file begins; at most one handle is open at any time and none   *)
(* when the report is serialized.                                          *)
(***************************************************************************)
C6_HandlesClosed ==
    /\ Cardinality(handles) <= 1
    /\ pc = "pages" => handles = {CurName}
    /\ pc \in {"start", "loop", "record", "done"} => handles = {}
    /\ serialized # <<>> => handles = {}

\* the second file faulted at a page after pages were extracted; no handle is open
C6_Witness ==
    /\ pc = "record"
    /\ idx = 2
    /\ page_num >= 1
    /\ content.tag = "str"
    /\ EndsWith(content.val, PageFaultText)
    /\ handles = {}

(***************************************************************************)
(* C7: two invocations on the unchanged directory, the library giving the  *)
(* same result for the same file and page, leave the same output file:     *)
(* same keys in the same order, same values.                               *)
(***************************************************************************)
C7_SameOutputTwice ==
    \A i, j \in DOMAIN history : history[i] = history[j]

\* both invocations finished, the output holding a Failure and a Success with records
C7_Witness ==
    /\ Len(history) = 2
    /\ run = "second"
    /\ \E i, j \in DOMAIN history[2][1] :
          /\ history[2][1][i].value.type = "string"
          /\ history[2][1][j].value.type = "array"
          /\ history[2][1][j].value.items # <<>>

(***************************************************************************)
(* C8: without a fault, a page contributes a record if and only if its     *)
(* text is present and not the empty string; the content stored is the     *)
(* text without leading and trailing whitespace; the records never         *)
(* outnumber the pages.                                                    *)
(***************************************************************************)
C8_RecordsMatchPages ==
    (pc = "pages" \/ (pc = "record" /\ content.tag = "list")) =>
        LET doc == DocOf(CurName)
        IN  /\ \A i \in 1..page_num :
                  HasText(doc, i) <=> (\E k \in DOMAIN text_content : text_content[k].page = i)
            /\ \A k \in DOMAIN text_content :
                  /\ text_content[k].page \in 1..page_num
                  /\ IsTrimOf(text_content[k].content,
                              ExtractText(doc.pages[text_content[k].page]).val)
            /\ \A k, m \in DOMAIN text_content :
                  text_content[k].page = text_content[m].page => k = m
            /\ Len(text_content) <= Len(doc.pages)
            /\ pc = "record" => content.val = text_content /\ page_num = Len(doc.pages)

\* three pages, one skipped, returned as two records whose text was trimmed
C8_Witness ==
    /\ pc = "record"
    /\ content.tag = "list"
    /\ Len(DocOf(CurName).pages) = 3
    /\ Len(content.val) = 2
    /\ \E i \in 1..3 : ~HasText(DocOf(CurName), i)
    /\ \A k \in 1..2 :
          content.val[k].content # ExtractText(DocOf(CurName).pages[content.val[k].page]).val

\* one json.dump, at the end, of the mapping returned; one entry per file taken
C9_SerializedOnceAtEnd ==
    /\ Len(serialized) <= 1
    /\ pc = "done" <=> Len(serialized) = 1
    /\ Len(serialized) = 1 =>
          /\ idx = Len(pdf_files)
          /\ DictKeys(analysis_results) = pdf_files
          /\ serialized = JsonDump(returned)
          /\ returned = analysis_results
    /\ DictKeys(analysis_results)
          = SubSeq(pdf_files, 1, IF pc \in {"pages", "record"} THEN idx - 1 ELSE idx)

\* a step keeps every entry the report has
C9_EntriesWriteOnce ==
    \A i \in DOMAIN analysis_results :
        /\ i \in DOMAIN analysis_results'
        /\ analysis_results'[i] = analysis_results[i]

(***************************************************************************)
(* C9: the report is serialized once, and only after every enumerated file *)
(* has been processed; files are processed one at a time; an entry of the  *)
(* report is never changed or removed once set; the mapping returned is    *)
(* the mapping that was serialized.                                        *)
(***************************************************************************)
C9_Lifecycle == [](C9_SerializedOnceAtEnd) /\ [][C9_EntriesWriteOnce]_vars

\* two files processed and their report serialized and returned
C9_Witness ==
    /\ pc = "done"
    /\ Len(serialized) = 1
    /\ Len(returned) = 2

\* the document opens and no page of it has text
NoText(doc) ==
    /\ ~doc.openFault
    /\ \A i \in DOMAIN doc.pages :
          \/ ExtractText(doc.pages[i]).kind = "none"
          \/ ExtractText(doc.pages[i]) = [kind |-> "str", val |-> ""]

(***************************************************************************)
(* C10: a file that opens and whose pages all have no text is recorded as  *)
(* the empty list, its summary is the page count 0 with no preview; every  *)
(* file gets exactly one of the two summaries, page count or error.        *)
(***************************************************************************)
C10_EmptySuccess ==
    JustRecorded =>
        LET block == LastBlock
            counts == { i \in DOMAIN block : StartsWith(block[i], "  - Pages: ") }
            errors == { i \in DOMAIN block : StartsWith(block[i], "  - Error: ") }
        IN  /\ Cardinality(counts) + Cardinality(errors) = 1
            /\ NoText(DocOf(CurName)) =>
                  /\ DictGet(analysis_results, CurName) = [tag |-> "list", val |-> <<>>]
                  /\ block = <<"Processing: " \o CurName, "  - Pages: 0", "">>

\* a document of two pages, one without text and one of empty text, summarised
C10_Witness ==
    /\ JustRecorded
    /\ NoText(DocOf(CurName))
    /\ Len(DocOf(CurName).pages) = 2
    /\ DocOf(CurName).pages[1] # DocOf(CurName).pages[2]
=============================================================================
